---------------------------- MODULE Spec2Model ----------------------------
(***************************************************************************)
(* Patch-based similarity scoring of scripts/AudioCLIP/frames.py and its   *)
(* driver scripts/AudioCLIP/integrate.py.                                  *)
(*                                                                         *)
(* Four groups of state (extract_patches_rect, negative_sample, MAP, the   *)
(* save/process pipeline) and five specifications:                         *)
(*   SpecPatches        extract_patches_rect, statement by statement       *)
(*   SpecNegativeSample negative_sample called with arbitrary k, threshold *)
(*   SpecProcessFrames  the negative sampling of one frame of              *)
(*                      process_frames (threshold torch.quantile, k = 40)  *)
(*   SpecMAP            MAP on a single-column similarity tensor           *)
(*   SpecPipeline       save_frame_embeddings followed by process_frames,  *)
(*                      with the feature files of the temporary directory  *)
(* A group that a specification does not drive keeps its idle value.       *)
(***************************************************************************)
EXTENDS Integers, Sequences, FiniteSets, Bags, TLC

VARIABLES
    \* extract_patches_rect
    ep_pc,          \* statement reached, or the exception raised
    ep,             \* the arguments: width, height, patch_size, patches_per_row, patches_per_column, site
    padded,         \* <<padded_width, padded_height>>
    stride,         \* <<stride_x, stride_y>>
    patches,        \* the crop boxes appended, as <<x, y>> of the upper left corner
    \* negative_sample
    ns_pc,          \* "sampling", "returned" or the exception raised
    ns_site,        \* "direct" or "process_frames"
    embedding,      \* per row of embedding, its dot product with source_feature
    ns_k,           \* k
    threshold,      \* threshold, in hundredths
    negatives,      \* the rows appended: a bag of row indices
    \* MAP
    map_pc,         \* "called", "returned" or the exception raised
    similarity,     \* the argument, one value per patch
    mapped,         \* the value returned
    \* save_frame_embeddings / process_frames
    pc,             \* statement reached, or the exception raised
    args,           \* num_frames, skip, scale and the video read
    dir_exists,     \* whether tmp_dir exists
    files,          \* the x for which tmp_dir holds frame_x.pt
    x,              \* loop variable of the running loop
    size,           \* <<w, h>> of the resized images
    movie           \* number of heatmaps appended by process_frames

epVars == <<ep_pc, ep, padded, stride, patches>>
nsVars == <<ns_pc, ns_site, embedding, ns_k, threshold, negatives>>
mapVars == <<map_pc, similarity, mapped>>
pipeVars == <<pc, args, dir_exists, files, x, size, movie>>
vars == <<epVars, nsVars, mapVars, pipeVars>>
epOthers == <<nsVars, mapVars, pipeVars>>
nsOthers == <<epVars, mapVars, pipeVars>>
mapOthers == <<epVars, nsVars, pipeVars>>
pipeOthers == <<epVars, nsVars, mapVars>>

---------------------------------------------------------------------------
(* Bounds of the model. *)
MaxSideUnits == 17      \* frames of the FrameArgs call site: sides 16, 32, ..., 16 * MaxSideUnits
MaxSide == 9            \* direct calls of extract_patches_rect: sides 1..MaxSide
MaxPatch == 3           \* direct calls: patch_size 1..MaxPatch
MaxPer == 4             \* direct calls: patches_per_row, patches_per_column 0..MaxPer
MaxRows == 3            \* rows of an embedding
MaxSim == 2             \* dot products 0..MaxSim
MaxK == 3               \* negative_sample called directly: k in 0..MaxK
MaxPatches == 21        \* MAP: tensors of 1..MaxPatches patches
MaxStep == 2            \* MAP: the similarity of patch i is ((i - 1) * step) % period
MaxPeriod == 3
MaxFrames == 3          \* num_frames 0..MaxFrames, video of 0..MaxFrames frames

(* Program constants. *)
patch_size == 128
downscale == 32
NumNegatives == 40

---------------------------------------------------------------------------
(* Python integer arithmetic. *)

\* a // b for a >= 0 and b # 0 (floor division)
PyFloorDiv(a, b) ==
    IF b > 0 THEN a \div b ELSE 0 - ((a + (0 - b) - 1) \div (0 - b))

\* list(range(0, stop, step)) for step # 0
PyRange(stop, step) ==
    LET n == IF step > 0
             THEN (IF stop <= 0 THEN 0 ELSE (stop - 1) \div step + 1)
             ELSE (IF stop >= 0 THEN 0 ELSE ((0 - stop) - 1) \div (0 - step) + 1)
    IN  [i \in 1..n |-> (i - 1) * step]

---------------------------------------------------------------------------
(* extract_patches_rect *)

\* padding_x, padding_y: what brings a side up to a multiple of patch_size
Padding(side, ps) == (ps - (side % ps)) % ps

\* the side of ImageOps.expand's result: border p // 2 before, p - p // 2 after
PaddedSide(side, ps) ==
    side + Padding(side, ps) \div 2 + (Padding(side, ps) - Padding(side, ps) \div 2)

\* stride_x, stride_y; the caller has checked per # 1
Stride(padded_side, ps, per) == PyFloorDiv(padded_side - ps, per - 1)

\* the left (upper) coordinates one loop runs over
CropStarts(padded_side, ps, step) == PyRange(padded_side - ps + 1, step)

\* the boxes appended by the nested loops, row by row
CropBoxes(xs, ys) ==
    [i \in 1..(Len(xs) * Len(ys)) |->
        <<xs[((i - 1) % Len(xs)) + 1], ys[((i - 1) \div Len(xs)) + 1]>>]

\* the call of get_frame_embeddings and save_frame_embeddings
FrameArgsCall(w, h) ==
    [width |-> w, height |-> h, patch_size |-> patch_size,
     patches_per_row |-> w \div downscale,
     patches_per_column |-> h \div downscale, site |-> "FrameArgs"]

DirectCall(w, h, ps, ppr, ppc) ==
    [width |-> w, height |-> h, patch_size |-> ps,
     patches_per_row |-> ppr, patches_per_column |-> ppc, site |-> "direct"]

FrameSides == {16 * i : i \in 1..MaxSideUnits}

EpCalls ==
    {FrameArgsCall(w, h) : w \in FrameSides, h \in FrameSides}
    \cup {DirectCall(w, h, ps, ppr, ppc) :
            w \in 1..MaxSide, h \in 1..MaxSide, ps \in 1..MaxPatch,
            ppr \in 0..MaxPer, ppc \in 0..MaxPer}

\* lines 45-59
EpPad ==
    /\ ep_pc = "pad"
    /\ padded' = <<PaddedSide(ep.width, ep.patch_size),
                   PaddedSide(ep.height, ep.patch_size)>>
    /\ ep_pc' = "stride"
    /\ UNCHANGED <<ep, stride, patches>>
    /\ UNCHANGED epOthers

\* lines 60-61
EpStride ==
    /\ ep_pc = "stride"
    /\ ep.patches_per_row # 1
    /\ ep.patches_per_column # 1
    /\ stride' = <<Stride(padded[1], ep.patch_size, ep.patches_per_row),
                   Stride(padded[2], ep.patch_size, ep.patches_per_column)>>
    /\ ep_pc' = "crop"
    /\ UNCHANGED <<ep, padded, patches>>
    /\ UNCHANGED epOthers

\* lines 60-61: integer division by patches_per_row - 1 = 0
EpStrideZeroDivision ==
    /\ ep_pc = "stride"
    /\ (ep.patches_per_row = 1 \/ ep.patches_per_column = 1)
    /\ ep_pc' = "ZeroDivisionError"
    /\ UNCHANGED <<ep, padded, stride, patches>>
    /\ UNCHANGED epOthers

\* the inner range() is evaluated only when the outer one yields a y
EpRangeRaises ==
    \/ stride[2] = 0
    \/ /\ Len(CropStarts(padded[2], ep.patch_size, stride[2])) > 0
       /\ stride[1] = 0

\* lines 63-68
EpCrop ==
    /\ ep_pc = "crop"
    /\ ~EpRangeRaises
    /\ patches' =
         IF Len(CropStarts(padded[2], ep.patch_size, stride[2])) = 0
         THEN <<>>
         ELSE CropBoxes(CropStarts(padded[1], ep.patch_size, stride[1]),
                        CropStarts(padded[2], ep.patch_size, stride[2]))
    /\ ep_pc' = "stack"
    /\ UNCHANGED <<ep, padded, stride>>
    /\ UNCHANGED epOthers

\* lines 63-64: range() arg 3 must not be zero
EpCropValueError ==
    /\ ep_pc = "crop"
    /\ EpRangeRaises
    /\ ep_pc' = "ValueError"
    /\ UNCHANGED <<ep, padded, stride, patches>>
    /\ UNCHANGED epOthers

\* lines 70-71
EpReturn ==
    /\ ep_pc = "stack"
    /\ Len(patches) > 0
    /\ ep_pc' = "returned"
    /\ UNCHANGED <<ep, padded, stride, patches>>
    /\ UNCHANGED epOthers

\* line 70: torch.stack of an empty list
EpStackRuntimeError ==
    /\ ep_pc = "stack"
    /\ Len(patches) = 0
    /\ ep_pc' = "RuntimeError"
    /\ UNCHANGED <<ep, padded, stride, patches>>
    /\ UNCHANGED epOthers

EpNext ==
    \/ EpPad
    \/ EpStride
    \/ EpStrideZeroDivision
    \/ EpCrop
    \/ EpCropValueError
    \/ EpReturn
    \/ EpStackRuntimeError

\* the value and outcome of a whole call, for the callers
ExtractPatchesRect(c) ==
    LET pw == PaddedSide(c.width, c.patch_size)
        ph == PaddedSide(c.height, c.patch_size)
    IN  IF c.patches_per_row = 1 \/ c.patches_per_column = 1
        THEN [status |-> "ZeroDivisionError", stride_x |-> 0, stride_y |-> 0,
              padded_w |-> pw, padded_h |-> ph, n |-> 0]
        ELSE
        LET sx == Stride(pw, c.patch_size, c.patches_per_row)
            sy == Stride(ph, c.patch_size, c.patches_per_column)
            ny == IF sy = 0 THEN 0 ELSE Len(CropStarts(ph, c.patch_size, sy))
            nx == IF sx = 0 THEN 0 ELSE Len(CropStarts(pw, c.patch_size, sx))
        IN  [status |-> IF sy = 0 \/ (ny > 0 /\ sx = 0) THEN "ValueError"
                        ELSE IF nx * ny = 0 THEN "RuntimeError"
                        ELSE "returned",
             stride_x |-> sx, stride_y |-> sy,
             padded_w |-> pw, padded_h |-> ph, n |-> nx * ny]


---------------------------------------------------------------------------
(* negative_sample, and the threshold process_frames hands it.             *)
(* A row of embedding is represented by its dot product with               *)
(* source_feature, an integer; a threshold is kept in hundredths, so that  *)
(* the interpolated quantile is exact. The rows appended are kept as a bag *)
(* of row indices: the caller takes a mean over them (line 328).           *)

Embeddings == UNION {[1..n -> 0..MaxSim] : n \in 1..MaxRows}

\* a rejection test that lets a row through whose similarity equals the threshold
RejectedAboveOnly(sim, thr) == 100 * sim > thr

\* line 266: negative @ source_feature.T >= threshold
Rejected(sim, thr) == 100 * sim >= thr

\* torch.quantile(t, pct / 100), linear interpolation, in hundredths
Quantile100(t, pct) ==
    LET sorted == SortSeq(t, LAMBDA a, b : a < b)
        rank == pct * (Len(t) - 1)
        lo == rank \div 100
        hi == IF lo + 1 > Len(t) - 1 THEN Len(t) - 1 ELSE lo + 1
    IN  100 * sorted[lo + 1] + (rank % 100) * (sorted[hi + 1] - sorted[lo + 1])

\* line 321 (the comment of line 320 announces the lower 25%)
RejectionThreshold(t) == Quantile100(t, 70)

\* lines 321-324
PfThreshold ==
    /\ ns_pc = "quantile"
    /\ threshold' = RejectionThreshold(embedding)
    /\ ns_k' = NumNegatives
    /\ ns_pc' = "sampling"
    /\ UNCHANGED <<ns_site, embedding, negatives>>
    /\ UNCHANGED nsOthers

\* lines 262-267: the row drawn is rejected, the while loop goes round
NsReject(idx) ==
    /\ ns_pc = "sampling"
    /\ BagCardinality(negatives) < ns_k
    /\ Rejected(embedding[idx], threshold)
    /\ UNCHANGED nsVars
    /\ UNCHANGED nsOthers

\* lines 262-270: the row drawn is appended, the while loop is left
NsAppend(idx) ==
    /\ ns_pc = "sampling"
    /\ BagCardinality(negatives) < ns_k
    /\ ~Rejected(embedding[idx], threshold)
    /\ negatives' = negatives (+) SetToBag({idx})
    /\ UNCHANGED <<ns_pc, ns_site, embedding, ns_k, threshold>>
    /\ UNCHANGED nsOthers

\* line 271
NsStack ==
    /\ ns_pc = "sampling"
    /\ BagCardinality(negatives) = ns_k
    /\ ns_k > 0
    /\ ns_pc' = "returned"
    /\ UNCHANGED <<ns_site, embedding, ns_k, threshold, negatives>>
    /\ UNCHANGED nsOthers

\* line 271: torch.stack of an empty list
NsStackRuntimeError ==
    /\ ns_pc = "sampling"
    /\ BagCardinality(negatives) = ns_k
    /\ ns_k = 0
    /\ ns_pc' = "RuntimeError"
    /\ UNCHANGED <<ns_site, embedding, ns_k, threshold, negatives>>
    /\ UNCHANGED nsOthers

\* one pass of the while loop of line 261, for whatever np.random.randint draws
NsDrawRejected == \E idx \in 1..Len(embedding) : NsReject(idx)

NsDrawAppended == \E idx \in 1..Len(embedding) : NsAppend(idx)

NsNext ==
    \/ NsDrawRejected
    \/ NsDrawAppended
    \/ NsStack
    \/ NsStackRuntimeError

PfNext ==
    \/ PfThreshold
    \/ NsDrawRejected
    \/ NsDrawAppended
    \/ NsStack

---------------------------------------------------------------------------
(* MAP. Similarities are integers; the arithmetic up to the argument of    *)
(* exp is exact, and 100 / (1 + exp(-z)) is tabulated at the integer part  *)
(* of |z|. A value is an integer in 0..100 or "nan".                       *)

\* int(len(similarity) * 0.05)
TopCount(n) == (n * 5) \div 100

Sum(t) ==
    LET RECURSIVE S(_)
        S(i) == IF i = 0 THEN 0 ELSE t[i] + S(i - 1)
    IN  S(Len(t))

\* len * (len - 1) * similarity.std() ^ 2 (the unbiased estimator)
ScaledVariance(t) ==
    Len(t) * Sum([i \in 1..Len(t) |-> t[i] * t[i]]) - Sum(t) * Sum(t)

\* torch.topk(similarity[:, 0], k).values.min() for k >= 1
TopKMin(t, k) == SortSeq(t, LAMBDA a, b : a > b)[k]

\* the floor of 100 / (1 + exp(-z)) at z = 0, 1, ..., 5; 100 from 6 on
LogisticTable == <<50, 73, 88, 95, 98, 99>>

\* line 30, for one value v of the tensor t
MapValue(t, v, top) ==
    LET d == v - top
        var == ScaledVariance(t)
    IN  IF var = 0
        THEN (IF d = 0 THEN "nan" ELSE IF d > 0 THEN 100 ELSE 0)
        ELSE
        LET zz == (144 * d * d * Len(t) * (Len(t) - 1)) \div var
            z == CHOOSE r \in 0..6 :
                    /\ (r * r <= zz \/ r = 0)
                    /\ (r = 6 \/ (r + 1) * (r + 1) > zz)
            up == IF z = 6 THEN 100 ELSE LogisticTable[z + 1]
        IN  IF d >= 0 THEN up ELSE 100 - up

Tensors ==
    {[i \in 1..n |-> ((i - 1) * step) % period] :
        n \in 1..MaxPatches, step \in 0..MaxStep, period \in 1..MaxPeriod}

\* lines 28-30
MapReturn ==
    /\ map_pc = "called"
    /\ TopCount(Len(similarity)) > 0
    /\ mapped' = [i \in 1..Len(similarity) |->
                    MapValue(similarity, similarity[i],
                             TopKMin(similarity, TopCount(Len(similarity))))]
    /\ map_pc' = "returned"
    /\ UNCHANGED similarity
    /\ UNCHANGED mapOthers

\* line 29: min() of the empty tensor that topk returns for k = 0
MapRuntimeError ==
    /\ map_pc = "called"
    /\ TopCount(Len(similarity)) = 0
    /\ map_pc' = "RuntimeError"
    /\ UNCHANGED <<similarity, mapped>>
    /\ UNCHANGED mapOthers

MapNext ==
    \/ MapReturn
    \/ MapRuntimeError


---------------------------------------------------------------------------
(* save_frame_embeddings(model, num_frames, tmp_dir, skip, scale) followed *)
(* by process_frames(tmp_dir, ..., images, num_frames), as integrate.py    *)
(* calls them. Of tmp_dir the model keeps whether it exists and which      *)
(* frame_x.pt it holds.                                                    *)

VideoSides == {192, 480, 576, 640}
Scales == {1, 4}

PipeCalls ==
    [num_frames : 0..MaxFrames, skip : BOOLEAN, scale : Scales,
     n_images : 0..MaxFrames, video_w : VideoSides, video_h : VideoSides]

\* a save under one file name for every frame: each save replaces the last
TorchSaveOneName(fs, i) == {i}

\* line 239: torch.save(image_features, os.path.join(tmp_dir, f"frame_{x}.pt"))
TorchSave(fs, i) == fs \cup {i}

\* lines 296-297: range(min(len(images), num_frames))
FramesToProcess(a) ==
    IF a.n_images < a.num_frames THEN a.n_images ELSE a.num_frames

\* lines 170-182
SfeReadVideo ==
    /\ pc = "read"
    /\ args.n_images > 0
    /\ size' = <<args.video_w \div args.scale, args.video_h \div args.scale>>
    /\ pc' = "stride"
    /\ UNCHANGED <<args, dir_exists, files, x, movie>>
    /\ UNCHANGED pipeOthers

\* line 174: video_tensor[0] of a video without frames
SfeReadIndexError ==
    /\ pc = "read"
    /\ args.n_images = 0
    /\ pc' = "IndexError"
    /\ UNCHANGED <<args, dir_exists, files, x, size, movie>>
    /\ UNCHANGED pipeOthers

\* lines 185-192
SfeStride ==
    /\ pc = "stride"
    /\ ExtractPatchesRect(FrameArgsCall(size[1], size[2])).status = "returned"
    /\ pc' = IF args.skip THEN "return" ELSE "prompt"
    /\ UNCHANGED <<args, dir_exists, files, x, size, movie>>
    /\ UNCHANGED pipeOthers

\* lines 185-190: extract_patches_rect raises
SfeStrideRaises ==
    /\ pc = "stride"
    /\ ExtractPatchesRect(FrameArgsCall(size[1], size[2])).status # "returned"
    /\ pc' = ExtractPatchesRect(FrameArgsCall(size[1], size[2])).status
    /\ UNCHANGED <<args, dir_exists, files, x, size, movie>>
    /\ UNCHANGED pipeOthers

\* lines 193-195
SfePrompt(proceed) ==
    /\ pc = "prompt"
    /\ pc' = IF proceed # "y" THEN "Exception" ELSE "rmtree"
    /\ UNCHANGED <<args, dir_exists, files, x, size, movie>>
    /\ UNCHANGED pipeOthers

\* whatever input() returns
SfeAnswer == \E proceed \in {"y", "n"} : SfePrompt(proceed)

\* lines 196-200
SfeRmtree ==
    /\ pc = "rmtree"
    /\ dir_exists' = FALSE
    /\ files' = {}
    /\ pc' = "mkdir"
    /\ UNCHANGED <<args, x, size, movie>>
    /\ UNCHANGED pipeOthers

\* line 203, and the loop is entered
SfeMkdir ==
    /\ pc = "mkdir"
    /\ dir_exists' = TRUE
    /\ x' = 0
    /\ pc' = "extract"
    /\ UNCHANGED <<args, files, size, movie>>
    /\ UNCHANGED pipeOthers

\* lines 206-239, one iteration
SfeSaveFrame ==
    /\ pc = "extract"
    /\ x < args.num_frames
    /\ x < args.n_images
    /\ files' = TorchSave(files, x)
    /\ x' = x + 1
    /\ UNCHANGED <<pc, args, dir_exists, size, movie>>
    /\ UNCHANGED pipeOthers

\* line 213: images[x] beyond the frames of the video
SfeSaveIndexError ==
    /\ pc = "extract"
    /\ x < args.num_frames
    /\ x >= args.n_images
    /\ pc' = "IndexError"
    /\ UNCHANGED <<args, dir_exists, files, x, size, movie>>
    /\ UNCHANGED pipeOthers

\* the loop of line 206 is exhausted
SfeSaveDone ==
    /\ pc = "extract"
    /\ x >= args.num_frames
    /\ pc' = "return"
    /\ UNCHANGED <<args, dir_exists, files, x, size, movie>>
    /\ UNCHANGED pipeOthers

\* lines 242-245; integrate.py line 131 then enters process_frames
SfeReturn ==
    /\ pc = "return"
    /\ pc' = "sfe_returned"
    /\ UNCHANGED <<args, dir_exists, files, x, size, movie>>
    /\ UNCHANGED pipeOthers

\* lines 291-300
PfEnter ==
    /\ pc = "sfe_returned"
    /\ x' = 0
    /\ pc' = "load"
    /\ UNCHANGED <<args, dir_exists, files, size, movie>>
    /\ UNCHANGED pipeOthers

\* line 301
PfLoad ==
    /\ pc = "load"
    /\ x < FramesToProcess(args)
    /\ dir_exists
    /\ x \in files
    /\ pc' = "score"
    /\ UNCHANGED <<args, dir_exists, files, x, size, movie>>
    /\ UNCHANGED pipeOthers

\* line 301: torch.load of a file that is not there
PfLoadFileNotFound ==
    /\ pc = "load"
    /\ x < FramesToProcess(args)
    /\ ~(dir_exists /\ x \in files)
    /\ pc' = "FileNotFoundError"
    /\ UNCHANGED <<args, dir_exists, files, x, size, movie>>
    /\ UNCHANGED pipeOthers

\* lines 306-338: the frame is scored and its heatmap appended
PfScore ==
    /\ pc = "score"
    /\ TopCount(ExtractPatchesRect(FrameArgsCall(size[1], size[2])).n) > 0
    /\ movie' = movie + 1
    /\ x' = x + 1
    /\ pc' = "load"
    /\ UNCHANGED <<args, dir_exists, files, size>>
    /\ UNCHANGED pipeOthers

\* line 334: MAP raises on a frame of fewer than 20 patches
PfScoreMapRaises ==
    /\ pc = "score"
    /\ TopCount(ExtractPatchesRect(FrameArgsCall(size[1], size[2])).n) = 0
    /\ pc' = "RuntimeError in MAP"
    /\ UNCHANGED <<args, dir_exists, files, x, size, movie>>
    /\ UNCHANGED pipeOthers

\* line 340
PfReturn ==
    /\ pc = "load"
    /\ x >= FramesToProcess(args)
    /\ pc' = "done"
    /\ UNCHANGED <<args, dir_exists, files, x, size, movie>>
    /\ UNCHANGED pipeOthers

PipeNext ==
    \/ SfeReadVideo
    \/ SfeReadIndexError
    \/ SfeStride
    \/ SfeStrideRaises
    \/ SfeAnswer
    \/ SfeRmtree
    \/ SfeMkdir
    \/ SfeSaveFrame
    \/ SfeSaveIndexError
    \/ SfeSaveDone
    \/ SfeReturn
    \/ PfEnter
    \/ PfLoad
    \/ PfLoadFileNotFound
    \/ PfScore
    \/ PfScoreMapRaises
    \/ PfReturn

---------------------------------------------------------------------------
(* Specifications. A group that a specification does not drive is idle. *)

\* extract_patches_rect is entered with its arguments
InitPatches ==
    /\ ep_pc = "pad"
    /\ ep \in EpCalls
    /\ padded = <<0, 0>>
    /\ stride = <<0, 0>>
    /\ patches = <<>>
    /\ ns_pc = "idle"
    /\ ns_site = "none"
    /\ embedding = <<>>
    /\ ns_k = 0
    /\ threshold = 0
    /\ negatives = EmptyBag
    /\ map_pc = "idle"
    /\ similarity = <<>>
    /\ mapped = <<>>
    /\ pc = "idle"
    /\ args = [num_frames |-> 0, skip |-> TRUE, scale |-> 1,
               n_images |-> 0, video_w |-> 192, video_h |-> 192]
    /\ dir_exists = FALSE
    /\ files = {}
    /\ x = 0
    /\ size = <<0, 0>>
    /\ movie = 0

SpecPatches == InitPatches /\ [][EpNext]_vars

\* negative_sample(source_feature, embedding, k, threshold) is entered
InitNegativeSample ==
    /\ ep_pc = "idle"
    /\ ep = DirectCall(1, 1, 1, 0, 0)
    /\ padded = <<0, 0>>
    /\ stride = <<0, 0>>
    /\ patches = <<>>
    /\ ns_pc = "sampling"
    /\ ns_site = "direct"
    /\ embedding \in Embeddings
    /\ ns_k \in 0..MaxK
    /\ threshold \in {50 * i : i \in 0..(2 * MaxSim + 2)}
    /\ negatives = EmptyBag
    /\ map_pc = "idle"
    /\ similarity = <<>>
    /\ mapped = <<>>
    /\ pc = "idle"
    /\ args = [num_frames |-> 0, skip |-> TRUE, scale |-> 1,
               n_images |-> 0, video_w |-> 192, video_h |-> 192]
    /\ dir_exists = FALSE
    /\ files = {}
    /\ x = 0
    /\ size = <<0, 0>>
    /\ movie = 0

SpecNegativeSample == InitNegativeSample /\ [][NsNext]_vars

\* process_frames has loaded the embedding of a frame (lines 301-306)
InitProcessFrames ==
    /\ ep_pc = "idle"
    /\ ep = DirectCall(1, 1, 1, 0, 0)
    /\ padded = <<0, 0>>
    /\ stride = <<0, 0>>
    /\ patches = <<>>
    /\ ns_pc = "quantile"
    /\ ns_site = "process_frames"
    /\ embedding \in Embeddings
    /\ ns_k = 0
    /\ threshold = 0
    /\ negatives = EmptyBag
    /\ map_pc = "idle"
    /\ similarity = <<>>
    /\ mapped = <<>>
    /\ pc = "idle"
    /\ args = [num_frames |-> 0, skip |-> TRUE, scale |-> 1,
               n_images |-> 0, video_w |-> 192, video_h |-> 192]
    /\ dir_exists = FALSE
    /\ files = {}
    /\ x = 0
    /\ size = <<0, 0>>
    /\ movie = 0

SpecProcessFrames == InitProcessFrames /\ [][PfNext]_vars

\* MAP(similarity) is entered
InitMAP ==
    /\ ep_pc = "idle"
    /\ ep = DirectCall(1, 1, 1, 0, 0)
    /\ padded = <<0, 0>>
    /\ stride = <<0, 0>>
    /\ patches = <<>>
    /\ ns_pc = "idle"
    /\ ns_site = "none"
    /\ embedding = <<>>
    /\ ns_k = 0
    /\ threshold = 0
    /\ negatives = EmptyBag
    /\ map_pc = "called"
    /\ similarity \in Tensors
    /\ mapped = <<>>
    /\ pc = "idle"
    /\ args = [num_frames |-> 0, skip |-> TRUE, scale |-> 1,
               n_images |-> 0, video_w |-> 192, video_h |-> 192]
    /\ dir_exists = FALSE
    /\ files = {}
    /\ x = 0
    /\ size = <<0, 0>>
    /\ movie = 0

SpecMAP == InitMAP /\ [][MapNext]_vars

\* save_frame_embeddings is entered; tmp_dir is missing, or is what an earlier run left
InitPipeline ==
    /\ ep_pc = "idle"
    /\ ep = DirectCall(1, 1, 1, 0, 0)
    /\ padded = <<0, 0>>
    /\ stride = <<0, 0>>
    /\ patches = <<>>
    /\ ns_pc = "idle"
    /\ ns_site = "none"
    /\ embedding = <<>>
    /\ ns_k = 0
    /\ threshold = 0
    /\ negatives = EmptyBag
    /\ map_pc = "idle"
    /\ similarity = <<>>
    /\ mapped = <<>>
    /\ pc = "read"
    /\ args \in PipeCalls
    /\ dir_exists \in BOOLEAN
    /\ files \in SUBSET (0..(MaxFrames - 1))
    /\ (~dir_exists => files = {})
    /\ x = 0
    /\ size = <<0, 0>>
    /\ movie = 0

SpecPipeline == InitPipeline /\ [][PipeNext]_vars

---------------------------------------------------------------------------
(* Properties. *)

\* the states in which save_frame_embeddings has returned normally
SfeHasReturned ==
    pc \in {"sfe_returned", "load", "score", "done", "FileNotFoundError",
            "RuntimeError in MAP"}

\* tmp_dir holds frame_i.pt for every i in 0..num_frames-1, and no load has failed
AllFramesOnDisk ==
    /\ \A i \in 0..(args.num_frames - 1) : i \in files
    /\ pc # "FileNotFoundError"

\* C1, as stated: once save_frame_embeddings has returned normally, whatever
\* skip is, tmp_dir holds the feature file of every frame 0..num_frames-1 and
\* process_frames finds every file it loads.
C1_FilesForAnySkip == SfeHasReturned => AllFramesOnDisk

\* C1, amended: once save_frame_embeddings has returned normally from a call
\* with skip = False, tmp_dir holds the feature file of every frame
\* 0..num_frames-1 and process_frames finds every file it loads.
C1_FilesWhenNotSkipped == (SfeHasReturned /\ ~args.skip) => AllFramesOnDisk

\* a run with skip = False that saved several frames and processed them all
C1_Witness ==
    /\ pc = "done"
    /\ ~args.skip
    /\ args.num_frames >= 2
    /\ movie = args.num_frames
    /\ files = 0..(args.num_frames - 1)

\* C2: whenever negative_sample returns, it returns exactly k rows, each a row
\* of embedding whose similarity to source_feature is strictly below threshold.
C2_KRowsBelowThreshold ==
    ns_pc = "returned" =>
        /\ BagCardinality(negatives) = ns_k
        /\ \A idx \in BagToSet(negatives) :
              /\ idx \in 1..Len(embedding)
              /\ 100 * embedding[idx] < threshold

\* a return of two different rows, from an embedding that also has a row
\* whose similarity equals the threshold
C2_Witness ==
    /\ ns_pc = "returned"
    /\ ns_k >= 2
    /\ Cardinality(BagToSet(negatives)) >= 2
    /\ \E i \in 1..Len(embedding) : 100 * embedding[i] = threshold

\* C3: at the FrameArgs call site (patch_size 128, downscale 32), for a frame
\* whose width and height are at least 2 * downscale, the computed stride_x
\* and stride_y are at least 1 and below patch_size.
C3_StridesStepAndOverlap ==
    (/\ ep.site = "FrameArgs"
     /\ ep.width >= 2 * downscale
     /\ ep.height >= 2 * downscale
     /\ ep_pc \notin {"pad", "stride"}) =>
        /\ stride[1] \in 1..(patch_size - 1)
        /\ stride[2] \in 1..(patch_size - 1)

\* whether the crop of box b holds the pixel (px, py) of the padded image
InBox(b, px, py) ==
    /\ b[1] <= px /\ px < b[1] + ep.patch_size
    /\ b[2] <= py /\ py < b[2] + ep.patch_size

\* C4: when extract_patches_rect returns, every pixel of the original frame
\* (which sits in the padded image behind the left and upper border) lies
\* inside at least one of the crops.
C4_PatchesCoverFrame ==
    ep_pc = "returned" =>
        \A fx \in 0..(ep.width - 1), fy \in 0..(ep.height - 1) :
            \E i \in 1..Len(patches) :
                InBox(patches[i],
                      fx + Padding(ep.width, ep.patch_size) \div 2,
                      fy + Padding(ep.height, ep.patch_size) \div 2)

\* C5: for every tensor of N >= 1 patches MAP returns, without an error, one
\* value per patch, each a number between 0 and 100.
C5_MapIntoRange ==
    map_pc # "called" =>
        /\ map_pc = "returned"
        /\ Len(mapped) = Len(similarity)
        /\ \A i \in 1..Len(mapped) : mapped[i] \in 0..100

\* C6: when extract_patches_rect returns from a call with patches_per_row and
\* patches_per_column >= 2, there are patches_per_row patches in each row and
\* patches_per_column in each column, patches_per_row * patches_per_column in all.
C6_PatchCount ==
    (/\ ep_pc = "returned"
     /\ ep.patches_per_row >= 2
     /\ ep.patches_per_column >= 2) =>
        /\ Len(patches) = ep.patches_per_row * ep.patches_per_column
        /\ \A i \in 1..Len(patches) :
              /\ Cardinality({j \in 1..Len(patches) : patches[j][2] = patches[i][2]})
                    = ep.patches_per_row
              /\ Cardinality({j \in 1..Len(patches) : patches[j][1] = patches[i][1]})
                    = ep.patches_per_column

\* C7: every negative sample process_frames uses for a frame is a patch whose
\* unscaled similarity lies in the lowest 25% of the frame's similarities.
C7_NegativesInLowestQuarter ==
    ns_site = "process_frames" =>
        \A idx \in BagToSet(negatives) :
            100 * embedding[idx] <= Quantile100(embedding, 25)

=============================================================================
